---- MODULE Spec2Model ----
(***************************************************************************)
(* A model of itk::ThinShellDemonsMetric                                   *)
(* (include/itkThinShellDemonsMetric.hxx): the metric object with its      *)
(* transform, fixed mesh, moving mesh, target map and "targets computed"   *)
(* flag, and the operations Initialize, ComputeTargetPosition, GetValue,   *)
(* GetDerivative and GetValueAndDerivative.                                *)
(*                                                                         *)
(* Conventions.  A smart pointer is a sequence of length 0 (null) or 1     *)
(* (the object pointed to).  A mesh is the sequence of its vertex          *)
(* positions in traversal order; vertex identifiers are 0-based, so vertex *)
(* i is element i+1 of that sequence.  A point or a vector is a triple of  *)
(* integers (coordinates are doubles in the code; the model draws them     *)
(* from small integer ranges, where double arithmetic is exact).  A flat   *)
(* parameter or derivative array with 0-based index k is a sequence whose  *)
(* element k+1 is the array's element k.                                   *)
(***************************************************************************)
EXTENDS Integers, Sequences, FiniteSets, TLC

(* ------------------------------ bounds --------------------------------- *)

\* largest number of vertices of a mesh
MaxPoints == 2

(* ------------------------- program constants --------------------------- *)

\* NumericTraits< double >::max(), the initial minimumDistance
DoubleMax == 1000000

(* ------------------------------ inputs --------------------------------- *)

\* vertex positions of the fixed meshes
FixedPointSet == {<<0, 0, 0>>, <<2, 0, 0>>}

\* vertex positions of the moving meshes: one that is a fixed position, one
\* at the same distance from both fixed positions
MovingPointSet == {<<0, 0, 0>>, <<1, 1, -1>>}

\* per-vertex displacements the optimizer supplies: none, and one that
\* moves <<1, 1, -1>> onto <<2, 0, 0>>
DispSet == {<<0, 0, 0>>, <<1, -1, 1>>}

\* the content of a caller's derivative buffer before a call, and of a newly
\* allocated one: a number no derivative of these meshes equals
Stale == DoubleMax - 1

RECURSIVE SeqsOf(_, _)
\* all sequences of length n over S
SeqsOf(S, n) == IF n = 0 THEN {<<>>}
                ELSE {Append(s, x) : s \in SeqsOf(S, n - 1), x \in S}

\* smart pointers to a mesh with vertices from S: null, or a mesh of at most
\* MaxPoints vertices
MeshPointers(S) ==
  {<<>>} \cup {<<pts>> : pts \in UNION {SeqsOf(S, n) : n \in 0..MaxPoints}}

RECURSIVE Flatten(_)
\* a sequence of triples as one flat array
Flatten(ds) == IF ds = <<>> THEN <<>> ELSE Head(ds) \o Flatten(Tail(ds))

\* the parameter vectors for a moving mesh of n vertices: 3 scalars per vertex
ParamSet(n) == {Flatten(ds) : ds \in SeqsOf(DispSet, n)}

\* a buffer of len stale elements
StaleBuffer(len) == [k \in 1..len |-> Stale]

\* the derivative buffers a caller passes in: of any length 3 * n
PriorBuffers == {StaleBuffer(3 * n) : n \in 0..MaxPoints}

(* ------------------------------ state ---------------------------------- *)

VARIABLES
  m_Transform,              \* smart pointer to the transform (its parameters)
  m_FixedMesh,              \* smart pointer to the fixed mesh
  m_MovingMesh,             \* smart pointer to the moving mesh
  targetMap,                \* identifier -> target point
  m_TargetPositionComputed, \* the "targets computed" flag
  priorMap,                 \* the target map as the last Initialize() found it
  lastOp,                   \* the operation the last step ran
  status,                   \* how it ended: "ok" or "ConfigError" (exception)
  lastParams,               \* the parameters the last evaluator call was given
  value,                    \* <<v>>: the value it returned; <<>>: none
  derivative,               \* the caller's derivative buffer after the call
  overrun                   \* the call wrote outside the derivative buffer

vars == <<m_Transform, m_FixedMesh, m_MovingMesh, targetMap,
          m_TargetPositionComputed, priorMap, lastOp, status, lastParams, value,
          derivative, overrun>>

IsNull(ptr) == ptr = <<>>
Deref(ptr) == ptr[1]

\* mesh->GetNumberOfPoints()
GetNumberOfPoints(mesh) == Len(mesh)

(* --------------------------- point algebra ----------------------------- *)

Sq(x) == x * x

\* itk::Point::SquaredEuclideanDistanceTo
SquaredEuclideanDistanceTo(a, b) ==
  Sq(a[1] - b[1]) + Sq(a[2] - b[2]) + Sq(a[3] - b[3])

\* point + vector
PointPlusVector(p, v) == <<p[1] + v[1], p[2] + v[2], p[3] + v[3]>>

\* point - point
PointMinusPoint(a, b) == <<a[1] - b[1], a[2] - b[2], a[3] - b[3]>>

(* ----------------------------- transform ------------------------------- *)

\* a transform as SetTransform installs it: identity, no displacement stored
IdentityTransform == <<>>

\* the displacement the transform's parameters hold for vertex identifier
\* (zero where the parameters do not reach)
Displacement(params, identifier) ==
  IF 3 * identifier + 3 <= Len(params)
  THEN <<params[3 * identifier + 1], params[3 * identifier + 2],
         params[3 * identifier + 3]>>
  ELSE <<0, 0, 0>>

\* m_Transform->TransformPoint(inputPoint) for the vertex with this
\* identifier: the per-vertex additive displacement of the current parameters
TransformPoint(params, identifier, inputPoint) ==
  PointPlusVector(inputPoint, Displacement(params, identifier))

(* ----------------------------- target map ------------------------------ *)

EmptyMap == [i \in {} |-> <<0, 0, 0>>]

\* targetMap[identifier] = targetPoint
MapPut(map, identifier, point) ==
  [i \in (DOMAIN map) \cup {identifier} |->
     IF i = identifier THEN point ELSE map[i]]

\* targetMap.ElementAt(identifier) in a const method: the entry, or whatever
\* the read of a missing entry yields
ElementAt(map, identifier, garbage) ==
  IF identifier \in DOMAIN map THEN map[identifier] ELSE garbage[identifier]

\* a variant that keeps the entries of the previous run
TargetMapKept == targetMap

\* this->targetMap.Initialize(): the map emptied
TargetMapInitialize == EmptyMap

(* ------------------------ indeterminate values ------------------------- *)

\* the values an uninitialized point, or the read of a missing map entry,
\* can hold, one per vertex identifier in ids
GarbageChoices(ids) == [ids -> FixedPointSet]

\* the identifiers of the vertices of movingPts that have no entry in map
MissingIds(movingPts, map) ==
  {i \in 0..(Len(movingPts) - 1) : i \notin DOMAIN map}

\* the identifiers whose targetPoint is never assigned by the scan of the
\* fixed mesh: all of them when the fixed mesh has no vertex
UnassignedIds(movingPts, fixedPts) ==
  IF Len(fixedPts) = 0 THEN 0..(Len(movingPts) - 1) ELSE {}

(* ----------------------- ComputeTargetPosition ------------------------- *)

\* a variant that also replaces it on an equal distance
IsCloserOrEqual(dist, minimumDistance) == dist <= minimumDistance

\* the test that replaces the closest point found so far
IsCloser(dist, minimumDistance) == dist < minimumDistance

RECURSIVE ScanFixedPoints(_, _, _, _, _)
\* the inner loop: the fixed vertices from position j on, with the running
\* minimumDistance and targetPoint
ScanFixedPoints(fixedPts, transformedPoint, j, minimumDistance, targetPoint) ==
  IF j > Len(fixedPts) THEN targetPoint
  ELSE LET dist == SquaredEuclideanDistanceTo(fixedPts[j], transformedPoint)
       IN  IF IsCloser(dist, minimumDistance)
           THEN ScanFixedPoints(fixedPts, transformedPoint, j + 1, dist,
                                fixedPts[j])
           ELSE ScanFixedPoints(fixedPts, transformedPoint, j + 1,
                                minimumDistance, targetPoint)

\* the target of one moving vertex: targetPoint starts uninitialized and
\* minimumDistance at the largest double
ClosestPoint(fixedPts, transformedPoint, uninitialized) ==
  ScanFixedPoints(fixedPts, transformedPoint, 1, DoubleMax, uninitialized)

RECURSIVE TargetLoop(_, _, _, _, _, _)
\* the outer loop: the moving vertices from identifier on
TargetLoop(movingPts, fixedPts, params, garbage, identifier, map) ==
  IF identifier >= Len(movingPts) THEN map
  ELSE LET inputPoint == movingPts[identifier + 1]
           transformedPoint == TransformPoint(params, identifier, inputPoint)
           uninitialized == IF identifier \in DOMAIN garbage
                            THEN garbage[identifier] ELSE <<0, 0, 0>>
           targetPoint == ClosestPoint(fixedPts, transformedPoint,
                                       uninitialized)
       IN  TargetLoop(movingPts, fixedPts, params, garbage, identifier + 1,
                      MapPut(map, identifier, targetPoint))

\* the target map ComputeTargetPosition() leaves, both meshes and the
\* transform being present
ComputeTargetPosition(garbage) ==
  TargetLoop(Deref(m_MovingMesh), Deref(m_FixedMesh), Deref(m_Transform),
             garbage, 0, TargetMapInitialize)

(* ------------------------------ setters -------------------------------- *)

\* what a step that is no evaluator call leaves in the call results
NoResults ==
  /\ priorMap' = EmptyMap
  /\ lastParams' = <<>>
  /\ value' = <<>>
  /\ derivative' = <<>>
  /\ overrun' = FALSE

SetTransform(ptr) ==
  /\ m_Transform' = ptr
  /\ lastOp' = "SetTransform"
  /\ status' = "ok"
  /\ NoResults
  /\ UNCHANGED <<m_FixedMesh, m_MovingMesh, targetMap,
                 m_TargetPositionComputed>>

SetFixedMesh(ptr) ==
  /\ m_FixedMesh' = ptr
  /\ lastOp' = "SetFixedMesh"
  /\ status' = "ok"
  /\ NoResults
  /\ UNCHANGED <<m_Transform, m_MovingMesh, targetMap,
                 m_TargetPositionComputed>>

SetMovingMesh(ptr) ==
  /\ m_MovingMesh' = ptr
  /\ lastOp' = "SetMovingMesh"
  /\ status' = "ok"
  /\ NoResults
  /\ UNCHANGED <<m_Transform, m_FixedMesh, targetMap,
                 m_TargetPositionComputed>>

(* ----------------------------- Initialize ------------------------------ *)

\* the three presence checks of Initialize()
ConfigurationMissing ==
  IsNull(m_Transform) \/ IsNull(m_MovingMesh) \/ IsNull(m_FixedMesh)

\* a variant that announces the targets before it validates
InitializeFlagFirst ==
  /\ lastOp' = "Initialize"
  /\ priorMap' = targetMap
  /\ lastParams' = <<>>
  /\ value' = <<>>
  /\ derivative' = <<>>
  /\ overrun' = FALSE
  /\ UNCHANGED <<m_Transform, m_FixedMesh, m_MovingMesh>>
  /\ m_TargetPositionComputed' = TRUE
  /\ IF ConfigurationMissing
     THEN /\ status' = "ConfigError"
          /\ UNCHANGED targetMap
     ELSE /\ status' = "ok"
          /\ \E garbage \in GarbageChoices(UnassignedIds(Deref(m_MovingMesh),
                                                         Deref(m_FixedMesh))) :
               targetMap' = ComputeTargetPosition(garbage)

Initialize ==
  /\ lastOp' = "Initialize"
  /\ priorMap' = targetMap
  /\ lastParams' = <<>>
  /\ value' = <<>>
  /\ derivative' = <<>>
  /\ overrun' = FALSE
  /\ UNCHANGED <<m_Transform, m_FixedMesh, m_MovingMesh>>
  /\ IF ConfigurationMissing
     THEN /\ status' = "ConfigError"
          /\ UNCHANGED <<targetMap, m_TargetPositionComputed>>
     ELSE /\ status' = "ok"
          /\ \E garbage \in GarbageChoices(UnassignedIds(Deref(m_MovingMesh),
                                                         Deref(m_FixedMesh))) :
               targetMap' = ComputeTargetPosition(garbage)
          /\ m_TargetPositionComputed' = TRUE

(* ----------------------------- evaluators ------------------------------ *)

\* the two mesh checks at the head of GetValue and of GetDerivative
MeshesMissing == IsNull(m_FixedMesh) \/ IsNull(m_MovingMesh)

\* SetTransformParameters(parameters), of the base class, fails when there
\* is no transform to store them in
SetTransformParametersFails == IsNull(m_Transform)

\* the transform after SetTransformParameters(parameters)
SetTransformParameters(parameters) == <<parameters>>

\* a variant that measures from the nominal position
NominalPoint(inputPoint, vec) == inputPoint

\* the position GetValue measures from: the nominal one plus the displacement
DisplacedPoint(inputPoint, vec) == PointPlusVector(inputPoint, vec)

RECURSIVE ValueLoop(_, _, _, _, _, _)
\* the loop of GetValue: the moving vertices from identifier on
ValueLoop(movingPts, parameters, map, garbage, identifier, functionValue) ==
  IF identifier >= Len(movingPts) THEN functionValue
  ELSE LET inputPoint == movingPts[identifier + 1]
           vec == <<parameters[identifier * 3 + 1],
                    parameters[identifier * 3 + 2],
                    parameters[identifier * 3 + 3]>>
           transformedPoint == DisplacedPoint(inputPoint, vec)
           targetPoint == ElementAt(map, identifier, garbage)
           dist == SquaredEuclideanDistanceTo(targetPoint, transformedPoint)
       IN  ValueLoop(movingPts, parameters, map, garbage, identifier + 1,
                     functionValue + dist)

\* the number GetValue returns when it does not fail
FunctionValue(parameters, garbage) ==
  ValueLoop(Deref(m_MovingMesh), parameters, targetMap, garbage, 0, 0)

\* the length GetDerivative gives the derivative buffer
DerivativeSize(fixedPts, movingPts) == GetNumberOfPoints(fixedPts) * 3

\* the buffer after the size test: kept when it has the wanted size, else a
\* new one of that size, whose content is not initialized
Resized(prior, size) ==
  IF Len(prior) # size THEN StaleBuffer(size) ELSE prior

\* memset( buffer, 0, count * sizeof( double ) )
Memset(buffer, count) ==
  [k \in 1..Len(buffer) |-> IF k <= count THEN 0 ELSE buffer[k]]

\* derivative[index] = v; a write past the end does not land in the buffer
WriteAt(buffer, index, v) ==
  IF index < Len(buffer) THEN [buffer EXCEPT ![index + 1] = v] ELSE buffer

\* the position the gradient of a vertex is taken at: the nominal one
GradientPoint(inputPoint, vec) == inputPoint

RECURSIVE DerivativeLoop(_, _, _, _, _, _)
\* the loop of GetDerivative: the moving vertices from identifier on
DerivativeLoop(movingPts, parameters, map, garbage, identifier, buffer) ==
  IF identifier >= Len(movingPts) THEN buffer
  ELSE LET inputPoint == movingPts[identifier + 1]
           vec == <<parameters[identifier * 3 + 1],
                    parameters[identifier * 3 + 2],
                    parameters[identifier * 3 + 3]>>
           targetPoint == ElementAt(map, identifier, garbage)
           distVec == PointMinusPoint(targetPoint,
                                      GradientPoint(inputPoint, vec))
           b0 == WriteAt(buffer, identifier * 3, (-2) * distVec[1])
           b1 == WriteAt(b0, identifier * 3 + 1, (-2) * distVec[2])
           b2 == WriteAt(b1, identifier * 3 + 2, (-2) * distVec[3])
       IN  DerivativeLoop(movingPts, parameters, map, garbage, identifier + 1,
                          b2)

\* the caller's buffer when GetDerivative returns without failing
DerivativeResult(parameters, prior, garbage) ==
  LET fixedPts == Deref(m_FixedMesh)
      movingPts == Deref(m_MovingMesh)
      size == DerivativeSize(fixedPts, movingPts)
      zeroed == Memset(Resized(prior, size), GetNumberOfPoints(fixedPts) * 3)
  IN  DerivativeLoop(movingPts, parameters, targetMap, garbage, 0, zeroed)

\* some write of GetDerivative has an index outside the buffer
WritesOutside ==
  \E identifier \in 0..(Len(Deref(m_MovingMesh)) - 1) :
     identifier * 3 + 2 >=
       DerivativeSize(Deref(m_FixedMesh), Deref(m_MovingMesh))

\* the parameter vectors a caller passes: 3 scalars per moving vertex
CallerParams ==
  IF IsNull(m_MovingMesh)
  THEN ParamSet(0)
  ELSE ParamSet(Len(Deref(m_MovingMesh)))

\* the choices for the reads of target-map entries that do not exist
MissingReads ==
  IF IsNull(m_MovingMesh) THEN GarbageChoices({})
  ELSE GarbageChoices(MissingIds(Deref(m_MovingMesh), targetMap))

\* a variant that searches the targets again on every evaluation
GetValueRecomputes(parameters, garbage) ==
  /\ lastOp' = "GetValue"
  /\ priorMap' = EmptyMap
  /\ lastParams' = parameters
  /\ derivative' = <<>>
  /\ overrun' = FALSE
  /\ UNCHANGED <<m_FixedMesh, m_MovingMesh, m_TargetPositionComputed>>
  /\ IF MeshesMissing \/ SetTransformParametersFails
     THEN /\ status' = "ConfigError"
          /\ value' = <<>>
          /\ UNCHANGED <<m_Transform, targetMap>>
     ELSE /\ status' = "ok"
          /\ m_Transform' = SetTransformParameters(parameters)
          /\ value' = <<FunctionValue(parameters, garbage)>>
          /\ targetMap' =
               TargetLoop(Deref(m_MovingMesh), Deref(m_FixedMesh), parameters,
                          EmptyMap, 0, EmptyMap)

\* a variant that does not hand the parameters to the transform
GetValueNoCache(parameters, garbage) ==
  /\ lastOp' = "GetValue"
  /\ priorMap' = EmptyMap
  /\ lastParams' = parameters
  /\ derivative' = <<>>
  /\ overrun' = FALSE
  /\ UNCHANGED <<m_Transform, m_FixedMesh, m_MovingMesh, targetMap,
                 m_TargetPositionComputed>>
  /\ IF MeshesMissing \/ SetTransformParametersFails
     THEN /\ status' = "ConfigError"
          /\ value' = <<>>
     ELSE /\ status' = "ok"
          /\ value' = <<FunctionValue(parameters, garbage)>>

GetValue(parameters, garbage) ==
  /\ lastOp' = "GetValue"
  /\ priorMap' = EmptyMap
  /\ lastParams' = parameters
  /\ derivative' = <<>>
  /\ overrun' = FALSE
  /\ UNCHANGED <<m_FixedMesh, m_MovingMesh, targetMap,
                 m_TargetPositionComputed>>
  /\ IF MeshesMissing \/ SetTransformParametersFails
     THEN /\ status' = "ConfigError"
          /\ value' = <<>>
          /\ UNCHANGED m_Transform
     ELSE /\ status' = "ok"
          /\ m_Transform' = SetTransformParameters(parameters)
          /\ value' = <<FunctionValue(parameters, garbage)>>

\* a variant that zeroes the caller's buffer before it validates
GetDerivativeZeroFirst(parameters, prior, garbage) ==
  /\ lastOp' = "GetDerivative"
  /\ priorMap' = EmptyMap
  /\ lastParams' = parameters
  /\ value' = <<>>
  /\ UNCHANGED <<m_Transform, m_FixedMesh, m_MovingMesh, targetMap,
                 m_TargetPositionComputed>>
  /\ IF MeshesMissing
     THEN /\ status' = "ConfigError"
          /\ derivative' = Memset(prior, Len(prior))
          /\ overrun' = FALSE
     ELSE /\ status' = "ok"
          /\ derivative' = DerivativeResult(parameters, prior, garbage)
          /\ overrun' = WritesOutside

GetDerivative(parameters, prior, garbage) ==
  /\ lastOp' = "GetDerivative"
  /\ priorMap' = EmptyMap
  /\ lastParams' = parameters
  /\ value' = <<>>
  /\ UNCHANGED <<m_Transform, m_FixedMesh, m_MovingMesh, targetMap,
                 m_TargetPositionComputed>>
  /\ IF MeshesMissing
     THEN /\ status' = "ConfigError"
          /\ derivative' = prior
          /\ overrun' = FALSE
     ELSE /\ status' = "ok"
          /\ derivative' = DerivativeResult(parameters, prior, garbage)
          /\ overrun' = WritesOutside

GetValueAndDerivative(parameters, prior, garbage, garbage2) ==
  /\ lastOp' = "GetValueAndDerivative"
  /\ priorMap' = EmptyMap
  /\ lastParams' = parameters
  /\ UNCHANGED <<m_FixedMesh, m_MovingMesh, targetMap,
                 m_TargetPositionComputed>>
  /\ IF MeshesMissing \/ SetTransformParametersFails
     THEN /\ status' = "ConfigError"
          /\ value' = <<>>
          /\ derivative' = prior
          /\ overrun' = FALSE
          /\ UNCHANGED m_Transform
     ELSE /\ status' = "ok"
          /\ m_Transform' = SetTransformParameters(parameters)
          /\ value' = <<FunctionValue(parameters, garbage)>>
          /\ derivative' = DerivativeResult(parameters, prior, garbage2)
          /\ overrun' = WritesOutside

(* --------------------------- specification ----------------------------- *)

\* the metric as its constructor leaves it
Init ==
  /\ m_Transform = <<>>
  /\ m_FixedMesh = <<>>
  /\ m_MovingMesh = <<>>
  /\ targetMap = EmptyMap
  /\ m_TargetPositionComputed = FALSE
  /\ priorMap = EmptyMap
  /\ lastOp = "New"
  /\ status = "ok"
  /\ lastParams = <<>>
  /\ value = <<>>
  /\ derivative = <<>>
  /\ overrun = FALSE

Next ==
  \/ \E ptr \in {<<>>, <<IdentityTransform>>} : SetTransform(ptr)
  \/ \E ptr \in MeshPointers(FixedPointSet) : SetFixedMesh(ptr)
  \/ \E ptr \in MeshPointers(MovingPointSet) : SetMovingMesh(ptr)
  \/ Initialize
  \/ \E parameters \in CallerParams, garbage \in MissingReads :
       GetValue(parameters, garbage)
  \/ \E parameters \in CallerParams, prior \in PriorBuffers,
        garbage \in MissingReads :
       GetDerivative(parameters, prior, garbage)
  \/ \E parameters \in CallerParams, prior \in PriorBuffers,
        garbage \in MissingReads, garbage2 \in MissingReads :
       GetValueAndDerivative(parameters, prior, garbage, garbage2)

Spec == Init /\ [][Next]_vars

(* ------------------------------ claims --------------------------------- *)

Evaluators == {"GetValue", "GetDerivative", "GetValueAndDerivative"}

\* the fixed vertex position nearest to p, the first in traversal order
\* among those at the least squared distance
NearestFirst(fixedPts, p) ==
  LET d(j) == SquaredEuclideanDistanceTo(fixedPts[j], p)
  IN  fixedPts[CHOOSE j \in 1..Len(fixedPts) :
                 /\ \A k \in 1..Len(fixedPts) : d(j) <= d(k)
                 /\ \A k \in 1..(j - 1) : d(k) > d(j)]

\* the targets have been computed and every vertex of the current moving
\* mesh has one
TargetsComputed ==
  /\ m_TargetPositionComputed
  /\ ~IsNull(m_MovingMesh)
  /\ MissingIds(Deref(m_MovingMesh), targetMap) = {}

\* C1: a call of Initialize() made while the transform, the fixed mesh or the
\* moving mesh is unset ends with a configuration error and leaves the target
\* map and the "targets computed" flag as they were before the call.
C1_InitializeRejectsUnset ==
  [][(lastOp' = "Initialize"
      /\ (m_Transform = <<>> \/ m_FixedMesh = <<>> \/ m_MovingMesh = <<>>))
     => (/\ status' = "ConfigError"
         /\ targetMap' = targetMap
         /\ m_TargetPositionComputed' = m_TargetPositionComputed)]_vars

\* C1 happens: Initialize() has failed on a metric whose targets had been
\* computed before, and the computed targets are still there
C1_Witness ==
  /\ lastOp = "Initialize"
  /\ status = "ConfigError"
  /\ m_TargetPositionComputed
  /\ targetMap # EmptyMap
  /\ priorMap = targetMap

\* C2: when GetDerivative returns, the derivative buffer has length exactly
\* 3 * N_moving, holds no value from before the call, and no write of the call
\* fell outside the buffer.
C2_DerivativeBufferSized ==
  (lastOp = "GetDerivative" /\ status = "ok") =>
    /\ Len(derivative) = 3 * Len(Deref(m_MovingMesh))
    /\ \A k \in 1..Len(derivative) : derivative[k] # Stale
    /\ ~overrun

C5_TargetMapKeys ==
  (lastOp = "Initialize" /\ status = "ok") =>
    /\ DOMAIN targetMap = 0..(Len(Deref(m_MovingMesh)) - 1)
    /\ Cardinality(DOMAIN targetMap) = Len(Deref(m_MovingMesh))
    /\ m_TargetPositionComputed

\* C5 happens: Initialize() has succeeded again after the moving mesh was
\* replaced by one with fewer vertices than the target map had entries
C5_Witness ==
  /\ lastOp = "Initialize"
  /\ status = "ok"
  /\ Len(Deref(m_MovingMesh)) > 0
  /\ Cardinality(DOMAIN priorMap) > Len(Deref(m_MovingMesh))

\* C6: with the targets computed, GetValue(parameters) is the sum over the
\* moving vertices i of the squared distance between TargetMap[i] and the
\* nominal position of i displaced by (parameters[3i], parameters[3i+1],
\* parameters[3i+2]); it is not negative, and it is 0 when every displaced
\* vertex is at its target.
C6_ValueIsSumOfSquares ==
  (lastOp \in {"GetValue", "GetValueAndDerivative"} /\ status = "ok"
   /\ TargetsComputed) =>
    LET pts == Deref(m_MovingMesh)
        N == Len(pts)
        moved(i, c) == pts[i + 1][c] + lastParams[3 * i + c]
        term(i) == Sq(targetMap[i][1] - moved(i, 1))
                   + Sq(targetMap[i][2] - moved(i, 2))
                   + Sq(targetMap[i][3] - moved(i, 3))
        sum[n \in 0..N] == IF n = 0 THEN 0 ELSE sum[n - 1] + term(n - 1)
    IN  /\ value = <<sum[N]>>
        /\ value[1] >= 0
        /\ (\A i \in 0..(N - 1) :
              targetMap[i] = <<moved(i, 1), moved(i, 2), moved(i, 3)>>)
           => value = <<0>>

\* C6 happens: GetValue has returned a value that is not 0 for two vertices
\* with computed targets, one of them displaced
C6_Witness ==
  /\ lastOp = "GetValue"
  /\ status = "ok"
  /\ TargetsComputed
  /\ Len(Deref(m_MovingMesh)) = 2
  /\ \E k \in 1..Len(lastParams) : lastParams[k] # 0
  /\ \E k \in 1..Len(lastParams) : lastParams[k] = 0
  /\ value # <<0>>

\* C7: with the targets computed, GetDerivative sets, for every moving vertex
\* i and k = 0, 1, 2, derivative[3i+k] to -2 * (TargetMap[i][k] - p0_i[k]),
\* with p0_i the nominal position of i, whatever the parameters are.
C7_DerivativeAtNominalPosition ==
  (lastOp = "GetDerivative" /\ status = "ok" /\ TargetsComputed) =>
    \A i \in 0..(Len(Deref(m_MovingMesh)) - 1) : \A c \in 1..3 :
      /\ 3 * i + c \in DOMAIN derivative
      /\ derivative[3 * i + c] =
           (-2) * (targetMap[i][c] - Deref(m_MovingMesh)[i + 1][c])

C9_InitializeTwiceSameMap ==
  [][(lastOp = "Initialize" /\ status = "ok" /\ lastOp' = "Initialize")
     => targetMap' = targetMap]_vars

====
